---- MODULE Spec2Model ----
(***************************************************************************)
(* The CBSD-side SAS client of corenet/socket_to_sas.py as a state machine. *)
(*                                                                         *)
(* State: the module globals (created_nodes, tempNodeList, __sim_mode,     *)
(* __heartbeatTimer), the threading.Timer objects that are armed, and the  *)
(* position of the one request builder or response handler that is running *)
(* (its loop index and locals).  Every builder and handler is a loop over  *)
(* a batch; one loop iteration is one step of the model, and an exception  *)
(* ends the running function at the element that raised it.  Timers run in *)
(* their own threads and may fire between any two steps.                   *)
(*                                                                         *)
(* Python values: a missing key, None and "" are all written "" (all are   *)
(* falsy and the code only tests truthiness); a missing heartbeatInterval  *)
(* is 0.  Delays are in tenths of a second.                                *)
(***************************************************************************)
EXTENDS Integers, Sequences, FiniteSets, TLC

\* ---------------------------------------------------------------- bounds
MaxNodes == 2
MaxBatch == 2
MaxTimers == 2

\* ------------------------------------------------------- program constants
timeTilHearbeatExpires == 2400

\* ------------------------------------------------------------ value sets
\* None as the value of __heartbeatTimer: no Timer has the id 0.
None == 0
Addr == {"a1", "a2"}
CbsdIds == {"C1", "C2"}
Exceptions == {"TypeError", "IndexError", "AttributeError", "KeyError",
               "UnboundLocalError", "NameError", "RecursionError"}

NoElem == [t |-> "none"]

\* ------------------------------------------------------- Node and Grant
\* Grant() as constructed: every field empty, status NONE.
NewGrant ==
  [grantId |-> "", status |-> "NONE", grantExpireTime |-> "",
   heartbeatInterval |-> 0, channelType |-> ""]

\* Node(address): the serial number is what the hardware at that address
\* reports ("" when it reports none); no cbsdId, no measReportConfig, one
\* empty Grant.
NewNode(address, hwSerial) ==
  [ip |-> address, serial |-> hwSerial, cbsdId |-> "", meas |-> "",
   grant |-> NewGrant]

\* registered_nodes = [] and no statement of the module appends to it.
registered_nodes == << >>

\* ------------------------------------------------------------ variables
VARIABLES
  sim_mode,        \* __sim_mode
  created_nodes,   \* sequence of Node objects
  tempNodeList,    \* sequence of references: i > 0 is created_nodes[i],
                   \* 0 is a serial-number string (not a Node)
  placed,          \* history: what the request batch being built, or the
                   \* one built last, has appended to tempNodeList
  heartbeatTimer,  \* __heartbeatTimer: None or the id of a Timer
  timers,          \* armed threading.Timer objects: [id, fn, delay]
  timerSeq,        \* number of Timer objects created so far
  stopCommanded,   \* node_stop() has run
  blocked,         \* __blocked
  regBatch,        \* history, kept under SpecBatches: the queue q of the
                   \* Registration batch emitted last, which (st) is "none",
                   \* "awaiting" its response, "superseded" (a later batch
                   \* has reset the queue since) or "stale" (a Registration
                   \* response is or was processed after that)
  cur,             \* the running builder or handler and its locals
  ev               \* what the last step did

vars == <<sim_mode, created_nodes, tempNodeList, placed, heartbeatTimer,
          timers, timerSeq, stopCommanded, blocked, regBatch, cur, ev>>

Idle == [op |-> "idle", len |-> 0, iter |-> 0, arr |-> << >>, lh |-> FALSE]

\* What the last step did: the function that ran, the index of the element or
\* parameter set it read and that element, how the step ended, how the
\* function ended after a builder's last iteration ("" otherwise), what it
\* returned or emitted, how many elements of the batch were left unread, and
\* the nodes and timers as they were before the step; ds is the answer read at
\* the "(E)nter or (L)oad" prompt of a request entry point ("" when the
\* function read no prompt).
Event(op, elem, out, ret) ==
  [op |-> op, idx |-> cur.iter, elem |-> elem, out |-> out, fin |-> "",
   ret |-> ret, ds |-> "",
   rest |-> IF cur.op = "idle" THEN 0 ELSE cur.len - cur.iter - 1,
   nodes |-> created_nodes, timers |-> timers]

Init ==
  /\ sim_mode \in BOOLEAN
  /\ created_nodes = << >>
  /\ tempNodeList = << >>
  /\ placed = << >>
  /\ heartbeatTimer = None
  /\ timers = << >>
  /\ timerSeq = 0
  /\ stopCommanded = FALSE
  /\ blocked = FALSE
  /\ regBatch = [st |-> "none", q |-> << >>]
  /\ cur = Idle
  /\ ev = [op |-> "init", idx |-> 0, elem |-> NoElem, out |-> "none",
           fin |-> "", ret |-> << >>, ds |-> "", rest |-> 0, nodes |-> << >>,
           timers |-> << >>]

\* ------------------------------------------------------------- helpers
\* findCreatedNodeByIp: the first created node with that address, 0 for None.
RECURSIVE FirstWithIp(_, _, _)
FirstWithIp(nodes, address, i) ==
  IF i > Len(nodes) THEN 0
  ELSE IF nodes[i].ip = address THEN i
  ELSE FirstWithIp(nodes, address, i + 1)

findCreatedNodeByIp(nodes, address) == FirstWithIp(nodes, address, 1)

\* The step of a loop over a batch of cur.len elements: after the element at
\* cur.iter the loop goes on, or the function returns; an exception ends it.
AfterStep(out, arr, lh) ==
  IF out \in Exceptions \/ cur.iter + 1 >= cur.len
  THEN Idle
  ELSE [cur EXCEPT !.iter = cur.iter + 1, !.arr = arr, !.lh = lh]

\* ----------------------------------------------------------- createNode
CreateRequests ==
  [mode : {"", "TX", "RX", "XX"}, address : {""} \cup Addr,
   centerFreq : {"", "f1"}]

\* One iteration of simCreateNode's loop: arr after it, given the nodes
\* already in created_nodes.
simCreateNode(nodes, arr, request, hwSerial) ==
  IF request.mode = "" THEN arr
  ELSE IF request.address = "" THEN arr
  ELSE IF findCreatedNodeByIp(nodes, request.address) /= 0 THEN arr
  ELSE IF request.centerFreq = "" THEN arr
  ELSE IF request.mode \in {"TX", "RX"}
       THEN Append(arr, NewNode(request.address, hwSerial))
       ELSE arr

\* createNode(requests) in simulation mode: simCreateNode(requests), then
\* every node of the returned array is appended to created_nodes.
createNodeSim(len) ==
  /\ sim_mode /\ cur.op = "idle"
  /\ cur' = IF len = 0 THEN Idle
            ELSE [Idle EXCEPT !.op = "createNode", !.len = len]
  /\ ev' = Event("createNode", NoElem, IF len = 0 THEN "returned" ELSE "begin", << >>)
  /\ UNCHANGED <<sim_mode, created_nodes, tempNodeList, placed, heartbeatTimer,
                 timers, timerSeq, stopCommanded>>

createNodeStep(request, hwSerial) ==
  /\ cur.op = "createNode"
  /\ LET arr == simCreateNode(created_nodes, cur.arr, request, hwSerial)
         last == cur.iter + 1 >= cur.len
     IN /\ Len(created_nodes) + Len(arr) <= MaxNodes
        /\ created_nodes' = IF last THEN created_nodes \o arr ELSE created_nodes
        /\ cur' = AfterStep("ok", arr, FALSE)
        /\ ev' = Event("createNode", NoElem,
                       IF last THEN "returned" ELSE "ok", << >>)
  /\ UNCHANGED <<sim_mode, tempNodeList, placed, heartbeatTimer, timers, timerSeq,
                 stopCommanded>>

\* createNode() at the command line: cmdCreateNode() returns one Node for
\* the prompted address, whatever the mode entered, and it is appended.  (No
\* command-line path reads the node's serial number: cmdRegistrationReq
\* prompts for one.)
createNodeCmd(address, hwSerial) ==
  /\ ~sim_mode /\ cur.op = "idle"
  /\ Len(created_nodes) < MaxNodes
  /\ created_nodes' = Append(created_nodes, NewNode(address, hwSerial))
  /\ ev' = Event("createNode", NoElem, "returned", << >>)
  /\ UNCHANGED <<sim_mode, tempNodeList, placed, heartbeatTimer, timers, timerSeq,
                 stopCommanded, cur>>

\* simCreateNode(requests) over a whole payload: the array it returns.  Every
\* request is tested against created_nodes, not against the array so far.
RECURSIVE simCreateNodeAll(_, _, _, _)
simCreateNodeAll(nodes, requests, arr, hwSerial) ==
  IF requests = << >> THEN arr
  ELSE simCreateNodeAll(nodes, Tail(requests),
                        simCreateNode(nodes, arr, Head(requests), hwSerial),
                        hwSerial)

\* ------------------------------------------------------ request builders
\* reqAddressToNode: the created node a simulation request names by nodeIp,
\* 0 for None.
reqAddressToNode(nodes, request, mustBeRegistered) ==
  IF request.nodeIp = "" THEN 0
  ELSE LET node == findCreatedNodeByIp(nodes, request.nodeIp)
       IN IF node = 0 THEN 0
          ELSE IF mustBeRegistered /\ nodes[node].cbsdId = "" THEN 0
          ELSE node

\* What one iteration of a builder's loop leaves: the queue, the array of
\* requests built, and how the iteration ended.
Built(q, arr, out) == [q |-> q, arr |-> arr, out |-> out]

RegistrationParams ==
  [nodeIp : {""} \cup Addr, userId : {"", "U1"}, fccId : {"", "F1"}]
GrantParams == [nodeIp : {""} \cup Addr, operationParam : {"", "op"}]
CbsdParams == [nodeIp : {""} \cup Addr]
DataSources == {"E", "L", "exit"}

simRegistrationReq(nodes, q, arr, request) ==
  LET node == reqAddressToNode(nodes, request, FALSE)
  IN IF node = 0 THEN Built(q, arr, "dropped")
     \* the diagnostic for a missing serial number reads node.getIpaAddress
     ELSE IF nodes[node].serial = "" THEN Built(q, arr, "AttributeError")
     ELSE IF request.userId = "" THEN Built(q, arr, "dropped")
     ELSE IF request.fccId = "" THEN Built(q, arr, "dropped")
     ELSE Built(Append(q, node),
                Append(arr, [kind |-> "registrationRequest",
                             userId |-> request.userId,
                             fccId |-> request.fccId,
                             cbsdSerialNumber |-> nodes[node].serial]),
                "built")

simSpectrumInquiryReq(nodes, q, arr, request) ==
  LET node == reqAddressToNode(nodes, request, TRUE)
  IN IF node = 0 THEN Built(q, arr, "dropped")
     ELSE IF nodes[node].cbsdId = "" THEN Built(q, arr, "dropped")
     ELSE Built(Append(q, node),
                Append(arr, [kind |-> "spectrumInquiryRequest",
                             cbsdId |-> nodes[node].cbsdId]),
                "built")

simGrantReq(nodes, q, arr, request) ==
  LET node == reqAddressToNode(nodes, request, TRUE)
  IN IF node = 0 THEN Built(q, arr, "dropped")
     ELSE IF nodes[node].cbsdId = "" THEN Built(q, arr, "dropped")
     ELSE IF request.operationParam = "" THEN Built(q, arr, "dropped")
     ELSE Built(Append(q, node),
                Append(arr, [kind |-> "grantRequest",
                             cbsdId |-> nodes[node].cbsdId,
                             operationParam |-> request.operationParam]),
                "built")

\* The "not node" branch builds its diagnostic from node.getIpAddress(), with
\* node None.
simRelinquishmentReq(nodes, q, arr, request) ==
  LET node == reqAddressToNode(nodes, request, TRUE)
  IN IF node = 0 THEN Built(q, arr, "AttributeError")
     ELSE IF nodes[node].cbsdId = "" THEN Built(q, arr, "dropped")
     ELSE Built(Append(q, node),
                Append(arr, [kind |-> "relinquishmentRequest",
                             cbsdId |-> nodes[node].cbsdId,
                             grantId |-> nodes[node].grant.grantId]),
                "built")

simDeregistrationReq(nodes, q, arr, request) ==
  LET node == reqAddressToNode(nodes, request, TRUE)
  IN IF node = 0 THEN Built(q, arr, "AttributeError")
     ELSE IF nodes[node].cbsdId = "" THEN Built(q, arr, "dropped")
     ELSE Built(Append(q, node),
                Append(arr, [kind |-> "deregistrationRequest",
                             cbsdId |-> nodes[node].cbsdId]),
                "built")

\* The data-source prompt of spectrumInquiryRequest and what is emitted after
\* it: cmdSpectrumInquiryReq() builds one request for the cbsdId typed in,
\* configSpectrumInquiryReq() returns [None], 'exit' returns.
PromptSpectrumInquiry(ds, typed) ==
  CASE ds = "E" -> [out |-> "emitted", ds |-> ds,
                    ret |-> <<[kind |-> "spectrumInquiryRequest",
                               cbsdId |-> typed]>>]
    [] ds = "L" -> [out |-> "emitted", ds |-> ds, ret |-> <<[kind |-> "None"]>>]
    [] OTHER -> [out |-> "exit", ds |-> ds, ret |-> << >>]

\* cmdGrantReq() builds one request per node of registered_nodes.
PromptGrant(ds) ==
  CASE ds = "E" -> [out |-> "emitted", ds |-> ds,
                    ret |-> [i \in 1..Len(registered_nodes) |->
                               [kind |-> "grantRequest"]]]
    [] ds = "L" -> [out |-> "emitted", ds |-> ds, ret |-> <<[kind |-> "None"]>>]
    [] OTHER -> [out |-> "exit", ds |-> ds, ret |-> << >>]

\* BuilderBegin without the builder's "tempNodeList = []".
BuilderBeginKeeping(op, len, done) ==
  /\ cur.op = "idle"
  /\ tempNodeList' = tempNodeList
  /\ placed' = << >>
  /\ cur' = IF len = 0 THEN Idle ELSE [Idle EXCEPT !.op = op, !.len = len]
  /\ ev' = IF len = 0
           THEN [Event(op, NoElem, done.out, done.ret) EXCEPT !.ds = done.ds]
           ELSE Event(op, NoElem, "begin", << >>)
  /\ UNCHANGED <<sim_mode, created_nodes, heartbeatTimer, timers, timerSeq,
                 stopCommanded>>

\* A builder or entry point starts: the queue is reset, and an empty batch
\* ends the loop at once with `done`.
BuilderBegin(op, len, done) ==
  /\ cur.op = "idle"
  /\ tempNodeList' = << >>
  /\ placed' = << >>
  /\ cur' = IF len = 0 THEN Idle ELSE [Idle EXCEPT !.op = op, !.len = len]
  /\ ev' = IF len = 0
           THEN [Event(op, NoElem, done.out, done.ret) EXCEPT !.ds = done.ds]
           ELSE Event(op, NoElem, "begin", << >>)
  /\ UNCHANGED <<sim_mode, created_nodes, heartbeatTimer, timers, timerSeq,
                 stopCommanded>>

\* One iteration of the loop; `done` is what follows the loop's last
\* iteration, given the array built.
BuilderStep(op, request, b, done) ==
  /\ cur.op = op
  /\ tempNodeList' = b.q
  /\ placed' = IF b.out = "built" THEN Append(placed, b.q[Len(b.q)]) ELSE placed
  /\ cur' = AfterStep(b.out, b.arr, FALSE)
  /\ ev' = IF b.out \notin Exceptions /\ cur.iter + 1 >= cur.len
           THEN [Event(op, request, b.out, done.ret)
                   EXCEPT !.fin = done.out, !.ds = done.ds]
           ELSE Event(op, request, b.out, << >>)
  /\ UNCHANGED <<sim_mode, created_nodes, heartbeatTimer, timers, timerSeq,
                 stopCommanded>>

Emitted(arr) == [out |-> "emitted", ds |-> "", ret |-> arr]
Returned(arr) == [out |-> "returned", ds |-> "", ret |-> arr]

\* The event of a function that read `ds` at its data-source prompt.
Prompted(e, ds) == [e EXCEPT !.ds = ds]

\* registrationRequest(clientio, payload) in simulation mode.
registrationRequest(len) ==
  /\ sim_mode
  /\ BuilderBegin("registrationRequest", len, Emitted(<< >>))

registrationRequestStep(request) ==
  LET b == simRegistrationReq(created_nodes, tempNodeList, cur.arr, request)
  IN BuilderStep("registrationRequest", request, b, Emitted(b.arr))

\* registrationRequest(clientio) at the command line.  cmdRegistrationReq()
\* resets the queue and appends, per request, the serial number typed in (a
\* string); printing the grouping prompt ("Node " + (num+1)) raises in the
\* first request that asks for grouping parameters.
registrationRequestCmd(ds, num, grouping) ==
  /\ ~sim_mode /\ cur.op = "idle"
  /\ IF ds = "E"
     THEN /\ tempNodeList' =
               [i \in 1..(IF grouping /\ num > 0 THEN 1 ELSE num) |-> 0]
          /\ placed' = tempNodeList'
          /\ ev' = Prompted(
                     IF grouping /\ num > 0
                     THEN Event("registrationRequest", NoElem, "TypeError", << >>)
                     ELSE Event("registrationRequest", NoElem, "emitted",
                                [i \in 1..num |-> [kind |-> "registrationRequest"]]),
                     ds)
     ELSE /\ UNCHANGED <<tempNodeList, placed>>
          /\ ev' = Prompted(Event("registrationRequest", NoElem,
                                  IF ds = "L" THEN "emitted" ELSE "exit", << >>),
                            ds)
  /\ UNCHANGED <<sim_mode, created_nodes, heartbeatTimer, timers, timerSeq,
                 stopCommanded, cur>>

\* spectrumInquiryRequest: the simulation branch does not skip the prompt.
spectrumInquiryRequest(len, ds, typed) ==
  /\ sim_mode
  /\ len > 0 => ds = "exit"   \* the prompt is read after the loop
  /\ BuilderBegin("spectrumInquiryRequest", len, PromptSpectrumInquiry(ds, typed))

spectrumInquiryRequestStep(request, ds, typed) ==
  LET b == simSpectrumInquiryReq(created_nodes, tempNodeList, cur.arr, request)
  IN BuilderStep("spectrumInquiryRequest", request, b,
                 PromptSpectrumInquiry(ds, typed))

spectrumInquiryRequestCmd(ds, typed) ==
  /\ ~sim_mode /\ cur.op = "idle"
  /\ ev' = Prompted(Event("spectrumInquiryRequest", NoElem,
                          PromptSpectrumInquiry(ds, typed).out,
                          PromptSpectrumInquiry(ds, typed).ret), ds)
  /\ UNCHANGED <<sim_mode, created_nodes, tempNodeList, placed, heartbeatTimer, timers,
                 timerSeq, stopCommanded, cur>>

\* grantRequest: as spectrumInquiryRequest.
grantRequest(len, ds) ==
  /\ sim_mode
  /\ len > 0 => ds = "exit"   \* the prompt is read after the loop
  /\ BuilderBegin("grantRequest", len, PromptGrant(ds))

grantRequestStep(request, ds) ==
  LET b == simGrantReq(created_nodes, tempNodeList, cur.arr, request)
  IN BuilderStep("grantRequest", request, b, PromptGrant(ds))

grantRequestCmd(ds) ==
  /\ ~sim_mode /\ cur.op = "idle"
  /\ ev' = Prompted(Event("grantRequest", NoElem, PromptGrant(ds).out,
                          PromptGrant(ds).ret), ds)
  /\ UNCHANGED <<sim_mode, created_nodes, tempNodeList, placed, heartbeatTimer, timers,
                 timerSeq, stopCommanded, cur>>

\* simRelinquishmentReq(requests): no entry point calls it (the entry point
\* relinquishmentRequest has no simulation branch); it is the Relinquishment
\* builder of the simulation input.
simRelinquishmentReqCall(len) ==
  /\ sim_mode
  /\ BuilderBegin("simRelinquishmentReq", len, Returned(<< >>))

simRelinquishmentReqStep(request) ==
  LET b == simRelinquishmentReq(created_nodes, tempNodeList, cur.arr, request)
  IN BuilderStep("simRelinquishmentReq", request, b, Returned(b.arr))

\* deregistrationReqest in simulation mode: the array holds
\* DeregistrationRequest objects, which json.dumps does not serialise.
DeregistrationDone(arr) ==
  IF arr = << >> THEN Emitted(arr)
  ELSE [out |-> "TypeError", ds |-> "", ret |-> << >>]

deregistrationReqest(len) ==
  /\ sim_mode
  /\ BuilderBegin("deregistrationReqest", len, DeregistrationDone(<< >>))

deregistrationReqestStep(request) ==
  LET b == simDeregistrationReq(created_nodes, tempNodeList, cur.arr, request)
  IN BuilderStep("deregistrationReqest", request, b, DeregistrationDone(b.arr))

\* deregistrationReqest at the command line: cmdDeregistrationReq() appends
\* to arr = None; configDeregistrationReq() returns [None].
deregistrationReqestCmd(ds) ==
  /\ ~sim_mode /\ cur.op = "idle"
  /\ ev' = Prompted(Event("deregistrationReqest", NoElem,
                          CASE ds = "E" -> "AttributeError"
                            [] ds = "L" -> "emitted"
                            [] OTHER -> "exit",
                          IF ds = "L" THEN <<[kind |-> "None"]>> ELSE << >>), ds)
  /\ UNCHANGED <<sim_mode, created_nodes, tempNodeList, placed, heartbeatTimer, timers,
                 timerSeq, stopCommanded, cur>>

\* relinquishmentRequest, in either mode: cmdRelinquishmentReq() finds no
\* node in registered_nodes and reads cbsd.get_GrantId() of None; the 'L'
\* branch calls configRelinquishmentReq, a name the module does not define.
relinquishmentRequest(ds) ==
  /\ cur.op = "idle"
  /\ ev' = Prompted(Event("relinquishmentRequest", NoElem,
                          CASE ds = "E" -> "AttributeError"
                            [] ds = "L" -> "NameError"
                            [] OTHER -> "exit", << >>), ds)
  /\ UNCHANGED <<sim_mode, created_nodes, tempNodeList, placed, heartbeatTimer, timers,
                 timerSeq, stopCommanded, cur>>

\* ------------------------------------------------------ heartbeat request
\* Thread.start() returns None: it is the value assigned to __heartbeatTimer.
TimerStartKept(id) == id

TimerStart(id) == None

\* heartbeatRequest(clientio, payload).  In simulation mode it calls itself
\* without end.  At the command line cmdHeartbeatReq() finds no node in
\* registered_nodes and reads cbsd.get_GrantId() of None;
\* configHeartbeatReq() returns [None], which is emitted, and the expiry
\* watchdog Timer(240, node_stop) is started.
heartbeatRequest(ds) ==
  /\ cur.op = "idle"
  /\ IF sim_mode
     THEN /\ ev' = Event("heartbeatRequest", NoElem, "RecursionError", << >>)
          /\ UNCHANGED <<heartbeatTimer, timers, timerSeq>>
     ELSE IF ds = "L"
     THEN /\ timerSeq < MaxTimers
          /\ timerSeq' = timerSeq + 1
          /\ timers' = Append(timers, [id |-> timerSeq + 1, fn |-> "node_stop",
                                       delay |-> timeTilHearbeatExpires])
          /\ heartbeatTimer' = TimerStart(timerSeq + 1)
          /\ ev' = Prompted(Event("heartbeatRequest", NoElem, "emitted",
                                  <<[kind |-> "None"]>>), ds)
     ELSE /\ ev' = Prompted(Event("heartbeatRequest", NoElem,
                                  IF ds = "E" THEN "AttributeError" ELSE "exit",
                                  << >>), ds)
          /\ UNCHANGED <<heartbeatTimer, timers, timerSeq>>
  /\ UNCHANGED <<sim_mode, created_nodes, tempNodeList, placed, stopCommanded, cur>>

\* ------------------------------------------------------ response elements
\* A response envelope: present (a non-empty object) or not, with a
\* responseCode that is missing (ty "none"), a string or an integer.
Codes ==
  {[ty |-> "none", v |-> ""], [ty |-> "str", v |-> "0"],
   [ty |-> "str", v |-> "103"], [ty |-> "int", v |-> "0"],
   [ty |-> "int", v |-> "103"]}
NoEnvelope == [present |-> FALSE, code |-> [ty |-> "none", v |-> ""]]
Envelopes == {NoEnvelope} \cup {[present |-> TRUE, code |-> c] : c \in Codes}
Success == [present |-> TRUE, code |-> [ty |-> "str", v |-> "0"]]

\* Python truthiness of a responseCode.
Truthy(code) ==
  CASE code.ty = "none" -> FALSE
    [] code.ty = "str" -> code.v /= ""
    [] OTHER -> code.v /= "0"

isValidResponseTrusting(response) ==
  IF response.present
  THEN IF ~Truthy(response.code) THEN "False"
       ELSE IF response.code.ty /= "str" THEN "TypeError"
       ELSE "True"
  ELSE "False"

\* _isValidResponse: "True", "False", or the TypeError of printing
\* "Response Code: " + responseCode for a code that is not a string.
isValidResponse(response) ==
  IF response.present
  THEN IF ~Truthy(response.code) THEN "False"
       ELSE IF response.code.ty /= "str" THEN "TypeError"
       ELSE IF response.code.v /= "0" THEN "False"
       ELSE "True"
  ELSE "False"

\* The batches the model feeds a handler are drawn from these sets.  A field
\* that the branch taken never reads is held fixed, so that each set has one
\* element per path through the handler and per value the path stores.
RegistrationElem(env, cbsdId, meas) ==
  [t |-> "registration", response |-> env, cbsdId |-> cbsdId,
   responseMeasReportConfig |-> meas]
RegistrationElems ==
  {RegistrationElem(env, "C1", "") : env \in Envelopes \ {Success}}
  \cup {RegistrationElem(Success, c, "") : c \in {""} \cup CbsdIds}
  \cup {RegistrationElem(Success, c, "M1") : c \in CbsdIds}

Rejection == [present |-> TRUE, code |-> [ty |-> "str", v |-> "103"]]
RequiredOfGrant ==
  {"channelType", "grantId", "grantExpireTime", "heartbeatInterval"}
RequiredOfHeartbeat ==
  {"grantId", "transmitExpireTime", "grantExpireTime", "heartbeatInterval"}

\* `missing` names the required field the element lacks ("" when none);
\* operationParam is "" (absent), "noRange" (without an
\* operationFrequencyRange) or "full".
GrantElem(env, cbsdId, missing, meas, op) ==
  [t |-> "grant", response |-> env, cbsdId |-> cbsdId,
   channelType |-> IF missing = "channelType" THEN "" ELSE "GAA",
   grantId |-> IF missing = "grantId" THEN "" ELSE "G1",
   grantExpireTime |-> IF missing = "grantExpireTime" THEN "" ELSE "T1",
   heartbeatInterval |-> IF missing = "heartbeatInterval" THEN 0 ELSE 10,
   measReportConfig |-> meas, operationParam |-> op]
GrantElemsWith(configs) ==
  {GrantElem(env, "C1", "", "", "") : env \in Envelopes \ {Success}}
  \cup {GrantElem(Rejection, "C1", "", "", op) : op \in {"noRange", "full"}}
  \cup {GrantElem(Success, "C1", m, meas, "") :
          m \in RequiredOfGrant, meas \in configs}
  \cup {GrantElem(Success, c, "", meas, "") : c \in CbsdIds, meas \in configs}
  \cup {GrantElem(Success, "", "", "", "")}
GrantElems ==
  GrantElemsWith({""})
  \cup {GrantElem(Success, "C1", "grantExpireTime", "M1", "")}

HeartbeatIntervals == {1, 2, 10}
HeartbeatElem(env, cbsdId, missing, hbi, meas, op) ==
  [t |-> "heartbeat", response |-> env, cbsdId |-> cbsdId,
   grantId |-> IF missing = "grantId" THEN "" ELSE "G1",
   transmitExpireTime |-> IF missing = "transmitExpireTime" THEN "" ELSE "X1",
   grantExpireTime |-> IF missing = "grantExpireTime" THEN "" ELSE "T1",
   heartbeatInterval |-> IF missing = "heartbeatInterval" THEN 0 ELSE hbi,
   measReportConfig |-> meas, operationParam |-> op]
HeartbeatElemsWith(configs) ==
  {HeartbeatElem(env, "C1", "", 10, "", "") : env \in Envelopes \ {Success}}
  \cup {HeartbeatElem(Rejection, "C1", "", 10, "", op) :
          op \in {"noRange", "full"}}
  \cup {HeartbeatElem(Success, "C1", m, 10, meas, "") :
          m \in RequiredOfHeartbeat, meas \in configs}
  \cup {HeartbeatElem(Success, c, "", h, meas, "") :
          c \in CbsdIds, h \in HeartbeatIntervals, meas \in configs}
  \cup {HeartbeatElem(Success, "", "", 10, "", "")}
HeartbeatElems == HeartbeatElemsWith({""})
\* The first elements of the heartbeat batches that arrive while
\* __heartbeatTimer is None, when no element is read: one rejected, and one
\* complete and successful per heartbeatInterval.
HeartbeatFirsts ==
  {HeartbeatElem(Rejection, "C1", "", 10, "", "")}
  \cup {HeartbeatElem(Success, "C1", "", h, "", "") : h \in HeartbeatIntervals}

RelinquishmentElem(env, cbsdId, grantId) ==
  [t |-> "relinquishment", response |-> env, cbsdId |-> cbsdId,
   grantId |-> grantId]
RelinquishmentElems ==
  {RelinquishmentElem(env, "C1", "G1") : env \in Envelopes \ {Success}}
  \cup {RelinquishmentElem(Success, c, g) : c \in CbsdIds, g \in {"", "G1"}}
  \cup {RelinquishmentElem(Success, "", "G1")}

\* Spectrum inquiry and deregistration elements are read with element[key]:
\* `missing` names the one key the element lacks ("" when it has all).
SpectrumInquiryElem(missing, env) ==
  [t |-> "spectrumInquiry", missing |-> missing, response |-> env]
SpectrumInquiryElems ==
  {SpectrumInquiryElem(m, Success) : m \in {"cbsdId", "availableChannel"}}
  \cup {SpectrumInquiryElem("response", NoEnvelope)}
  \cup {SpectrumInquiryElem("", env) : env \in Envelopes}
  \cup {SpectrumInquiryElem("responseMessage",
                            [present |-> TRUE, code |-> [ty |-> "int", v |-> "0"]])}
DeregistrationElems ==
  [t : {"deregistration"}, missing : {"", "cbsdId", "response"}]

\* ------------------------------------------------------ response handlers
\* What one iteration of a handler's loop leaves: the nodes, the delay of the
\* Timer it started (0 when it started none), the locals low/high being
\* bound, and how the iteration ended.
Handled(nodes, arm, lh, out) ==
  [nodes |-> nodes, arm |-> arm, lh |-> lh, out |-> out]

\* findTempNodeByCbsdId: the first node of the queue with that cbsdId, 0 for
\* None, -1 for the AttributeError of calling getCbsdId() on a string.
RECURSIVE FirstWithCbsdId(_, _, _, _)
FirstWithCbsdId(nodes, q, cbsdId, k) ==
  IF k > Len(q) THEN 0
  ELSE IF q[k] = 0 THEN -1
  ELSE IF nodes[q[k]].cbsdId = cbsdId THEN q[k]
  ELSE FirstWithCbsdId(nodes, q, cbsdId, k + 1)

findTempNodeByCbsdId(nodes, q, cbsdId) == FirstWithCbsdId(nodes, q, cbsdId, 1)

\* The rejected branch of the Grant and Heartbeat handlers: the suggested
\* operationParam is printed; low and high are assigned only when it has an
\* operationFrequencyRange, and are read in any case.
Rejected(nodes, lh, e) ==
  IF e.operationParam = "" THEN Handled(nodes, 0, lh, "skipped")
  ELSE IF e.operationParam = "full" THEN Handled(nodes, 0, TRUE, "skipped")
  ELSE IF lh THEN Handled(nodes, 0, lh, "skipped")
  ELSE Handled(nodes, 0, lh, "UnboundLocalError")

\* delayTilNextHeartbeat, in tenths of a second: 0.9 * heartbeatInterval,
\* raised to 1 second when below it.
delayTilNextHeartbeat(heartbeatInterval) ==
  IF 9 * heartbeatInterval < 10 THEN 10 ELSE 9 * heartbeatInterval

\* handleRegistrationResponse without the test of cbsdId.
handleRegistrationResponseAnyCbsdId(nodes, q, iter, e) ==
  LET valid == isValidResponse(e.response)
  IN IF valid = "TypeError" THEN Handled(nodes, 0, FALSE, "TypeError")
     ELSE IF valid = "False" THEN Handled(nodes, 0, FALSE, "skipped")
     ELSE IF iter + 1 > Len(q) THEN Handled(nodes, 0, FALSE, "IndexError")
     ELSE IF q[iter + 1] = 0 THEN Handled(nodes, 0, FALSE, "AttributeError")
     ELSE LET assigned == [nodes EXCEPT ![q[iter + 1]].cbsdId = e.cbsdId]
          IN IF e.responseMeasReportConfig /= ""
             THEN Handled(assigned, 0, FALSE, "TypeError")
             ELSE Handled(assigned, 0, FALSE, "applied")

\* One iteration of handleRegistrationResponse's loop, iter counted from 0.
handleRegistrationResponse(nodes, q, iter, e) ==
  LET valid == isValidResponse(e.response)
  IN IF valid = "TypeError" THEN Handled(nodes, 0, FALSE, "TypeError")
     ELSE IF valid = "False" THEN Handled(nodes, 0, FALSE, "skipped")
     ELSE IF e.cbsdId = "" THEN Handled(nodes, 0, FALSE, "skipped")
     ELSE IF iter + 1 > Len(q) THEN Handled(nodes, 0, FALSE, "IndexError")
     ELSE IF q[iter + 1] = 0 THEN Handled(nodes, 0, FALSE, "AttributeError")
     ELSE LET assigned == [nodes EXCEPT ![q[iter + 1]].cbsdId = e.cbsdId]
          \* measReportConfig is read from the envelope; printing
          \* "...Assigned: " + measReportConfig (a list) raises
          IN IF e.responseMeasReportConfig /= ""
             THEN Handled(assigned, 0, FALSE, "TypeError")
             ELSE Handled(assigned, 0, FALSE, "applied")

\* handleGrantResponse without the test of grantExpireTime.
handleGrantResponseUnchecked(nodes, q, lh, e) ==
  LET valid == isValidResponse(e.response)
  IN IF valid = "TypeError" THEN Handled(nodes, 0, lh, "TypeError")
     ELSE IF valid = "False" THEN Rejected(nodes, lh, e)
     ELSE IF e.channelType = "" THEN Handled(nodes, 0, lh, "skipped")
     ELSE IF e.grantId = "" THEN Handled(nodes, 0, lh, "skipped")
     ELSE IF e.heartbeatInterval = 0 THEN Handled(nodes, 0, lh, "skipped")
     ELSE IF e.cbsdId = "" THEN Handled(nodes, 0, lh, "skipped")
     ELSE LET node == findTempNodeByCbsdId(nodes, q, e.cbsdId)
          IN IF node = -1 THEN Handled(nodes, 0, lh, "AttributeError")
             ELSE IF node = 0 THEN Handled(nodes, 0, lh, "skipped")
             ELSE Handled(
                    [nodes EXCEPT
                       ![node].meas = IF e.measReportConfig /= ""
                                      THEN e.measReportConfig ELSE @,
                       ![node].grant =
                          [grantId |-> e.grantId, status |-> "GRANTED",
                           grantExpireTime |-> e.grantExpireTime,
                           heartbeatInterval |-> e.heartbeatInterval,
                           channelType |-> e.channelType]],
                    0, lh, "applied")

\* handleGrantResponse scheduling the next heartbeat as
\* handleHeartbeatResponse does.
handleGrantResponseArming(nodes, q, lh, e) ==
  LET valid == isValidResponse(e.response)
  IN IF valid = "TypeError" THEN Handled(nodes, 0, lh, "TypeError")
     ELSE IF valid = "False" THEN Rejected(nodes, lh, e)
     ELSE IF e.channelType = "" THEN Handled(nodes, 0, lh, "skipped")
     ELSE IF e.grantId = "" THEN Handled(nodes, 0, lh, "skipped")
     ELSE IF e.grantExpireTime = "" THEN Handled(nodes, 0, lh, "skipped")
     ELSE IF e.heartbeatInterval = 0 THEN Handled(nodes, 0, lh, "skipped")
     ELSE IF e.cbsdId = "" THEN Handled(nodes, 0, lh, "skipped")
     ELSE LET node == findTempNodeByCbsdId(nodes, q, e.cbsdId)
          IN IF node = -1 THEN Handled(nodes, 0, lh, "AttributeError")
             ELSE IF node = 0 THEN Handled(nodes, 0, lh, "skipped")
             ELSE Handled(
                    [nodes EXCEPT
                       ![node].grant =
                          [grantId |-> e.grantId, status |-> "GRANTED",
                           grantExpireTime |-> e.grantExpireTime,
                           heartbeatInterval |-> e.heartbeatInterval,
                           channelType |-> e.channelType]],
                    delayTilNextHeartbeat(e.heartbeatInterval), lh, "applied")

\* One iteration of handleGrantResponse's loop.
handleGrantResponse(nodes, q, lh, e) ==
  LET valid == isValidResponse(e.response)
  IN IF valid = "TypeError" THEN Handled(nodes, 0, lh, "TypeError")
     ELSE IF valid = "False" THEN Rejected(nodes, lh, e)
     ELSE IF e.channelType = "" THEN Handled(nodes, 0, lh, "skipped")
     ELSE IF e.grantId = "" THEN Handled(nodes, 0, lh, "skipped")
     ELSE IF e.grantExpireTime = "" THEN Handled(nodes, 0, lh, "skipped")
     ELSE IF e.heartbeatInterval = 0 THEN Handled(nodes, 0, lh, "skipped")
     ELSE IF e.cbsdId = "" THEN Handled(nodes, 0, lh, "skipped")
     ELSE LET node == findTempNodeByCbsdId(nodes, q, e.cbsdId)
          IN IF node = -1 THEN Handled(nodes, 0, lh, "AttributeError")
             ELSE IF node = 0 THEN Handled(nodes, 0, lh, "skipped")
             ELSE Handled(
                    [nodes EXCEPT
                       ![node].meas = IF e.measReportConfig /= ""
                                      THEN e.measReportConfig ELSE @,
                       ![node].grant =
                          [grantId |-> e.grantId, status |-> "GRANTED",
                           grantExpireTime |-> e.grantExpireTime,
                           heartbeatInterval |-> e.heartbeatInterval,
                           channelType |-> e.channelType]],
                    0, lh, "applied")

\* One iteration of handleHeartbeatResponse's loop.
handleHeartbeatResponse(nodes, q, lh, e) ==
  LET valid == isValidResponse(e.response)
  IN IF valid = "TypeError" THEN Handled(nodes, 0, lh, "TypeError")
     ELSE IF valid = "False" THEN Rejected(nodes, lh, e)
     ELSE IF e.cbsdId = "" THEN Handled(nodes, 0, lh, "skipped")
     ELSE LET node == findTempNodeByCbsdId(nodes, q, e.cbsdId)
          IN IF node = -1 THEN Handled(nodes, 0, lh, "AttributeError")
             ELSE IF node = 0 THEN Handled(nodes, 0, lh, "skipped")
             ELSE IF e.grantId = "" THEN Handled(nodes, 0, lh, "skipped")
             ELSE IF e.transmitExpireTime = "" THEN Handled(nodes, 0, lh, "skipped")
             ELSE IF e.grantExpireTime = "" THEN Handled(nodes, 0, lh, "skipped")
             ELSE IF e.heartbeatInterval = 0 THEN Handled(nodes, 0, lh, "skipped")
             ELSE Handled(
                    [nodes EXCEPT
                       ![node].meas = IF e.measReportConfig /= ""
                                      THEN e.measReportConfig ELSE @],
                    delayTilNextHeartbeat(e.heartbeatInterval), lh, "applied")

\* One iteration of handleRelinquishmentResponse's loop: the Grant of the
\* resolved node is re-initialised.
handleRelinquishmentResponse(nodes, q, e) ==
  LET valid == isValidResponse(e.response)
  IN IF valid = "TypeError" THEN Handled(nodes, 0, FALSE, "TypeError")
     ELSE IF valid = "False" THEN Handled(nodes, 0, FALSE, "skipped")
     ELSE IF e.cbsdId = "" THEN Handled(nodes, 0, FALSE, "skipped")
     ELSE LET node == findTempNodeByCbsdId(nodes, q, e.cbsdId)
          IN IF node = -1 THEN Handled(nodes, 0, FALSE, "AttributeError")
             ELSE IF node = 0 THEN Handled(nodes, 0, FALSE, "skipped")
             ELSE IF e.grantId = "" THEN Handled(nodes, 0, FALSE, "skipped")
             ELSE Handled([nodes EXCEPT ![node].grant = NewGrant], 0, FALSE,
                          "applied")

\* One iteration of handleSpectrumInquiryResponse's loop: every key is read
\* with element[key]; a responseCode that is a valid int is printed with
\* "Response Code " + int(responseCode).
handleSpectrumInquiryResponse(nodes, e) ==
  IF e.missing \in {"cbsdId", "availableChannel", "response"}
  THEN Handled(nodes, 0, FALSE, "KeyError")
  ELSE IF ~e.response.present THEN Handled(nodes, 0, FALSE, "applied")
  ELSE IF e.response.code.ty = "none" THEN Handled(nodes, 0, FALSE, "KeyError")
  ELSE IF Truthy(e.response.code) THEN Handled(nodes, 0, FALSE, "TypeError")
  ELSE IF e.missing = "responseMessage" THEN Handled(nodes, 0, FALSE, "KeyError")
  ELSE Handled(nodes, 0, FALSE, "applied")

\* One iteration of handleDeregistrationResponse's loop.
handleDeregistrationResponse(nodes, e) ==
  IF e.missing \in {"cbsdId", "response"}
  THEN Handled(nodes, 0, FALSE, "KeyError")
  ELSE Handled(nodes, 0, FALSE, "applied")

\* A response event arrives and its handler starts: a batch that is missing
\* or empty is reported unreadable and the handler returns.
HandlerBegin(op, len) ==
  /\ cur.op = "idle"
  /\ cur' = IF len = 0 THEN Idle ELSE [Idle EXCEPT !.op = op, !.len = len]
  /\ ev' = Event(op, NoElem, IF len = 0 THEN "unreadable" ELSE "begin", << >>)
  /\ UNCHANGED <<sim_mode, created_nodes, tempNodeList, placed, heartbeatTimer, timers,
                 timerSeq, stopCommanded>>

\* A handler that reads jsonData[key]: a missing key raises.
HandlerBeginKeyed(op, len, present) ==
  /\ cur.op = "idle"
  /\ ~present => len = 0
  /\ cur' = IF len = 0 \/ ~present THEN Idle
            ELSE [Idle EXCEPT !.op = op, !.len = len]
  /\ ev' = Event(op, NoElem,
                 IF ~present THEN "KeyError"
                 ELSE IF len = 0 THEN "returned" ELSE "begin", << >>)
  /\ UNCHANGED <<sim_mode, created_nodes, tempNodeList, placed, heartbeatTimer, timers,
                 timerSeq, stopCommanded>>

registrationResponse(len) == HandlerBegin("handleRegistrationResponse", len)
grantResponse(len) == HandlerBegin("handleGrantResponse", len)
relinquishmentResponse(len) == HandlerBegin("handleRelinquishmentResponse", len)
sprectumInquiryResponse(len, present) ==
  HandlerBeginKeyed("handleSpectrumInquiryResponse", len, present)
deregistrationResponse(len, present) ==
  HandlerBeginKeyed("handleDeregistrationResponse", len, present)

\* Timer.cancel(): the timer, if still armed, is disarmed.
Cancel(ts, id) == SelectSeq(ts, LAMBDA t : t.id /= id)

\* handleHeartbeatResponse starts with __heartbeatTimer.cancel(), which
\* raises when __heartbeatTimer is None: `first`, the first element of the
\* batch that arrived (NoElem when it has none), is then never read.
heartbeatResponse(len, first) ==
  /\ cur.op = "idle"
  /\ len = 0 <=> first = NoElem
  /\ IF heartbeatTimer = None
     THEN /\ ev' = Event("handleHeartbeatResponse", first, "AttributeError", << >>)
          /\ UNCHANGED <<timers, cur>>
     ELSE /\ timers' = Cancel(timers, heartbeatTimer)
          /\ cur' = IF len = 0 THEN Idle
                    ELSE [Idle EXCEPT !.op = "handleHeartbeatResponse",
                                      !.len = len]
          /\ ev' = Event("handleHeartbeatResponse", NoElem,
                         IF len = 0 THEN "unreadable" ELSE "begin", << >>)
  /\ UNCHANGED <<sim_mode, created_nodes, tempNodeList, placed, heartbeatTimer,
                 timerSeq, stopCommanded>>

Handlers ==
  {"handleRegistrationResponse", "handleSpectrumInquiryResponse",
   "handleGrantResponse", "handleHeartbeatResponse",
   "handleRelinquishmentResponse", "handleDeregistrationResponse"}

ElementsOf(op) ==
  CASE op = "handleRegistrationResponse" -> RegistrationElems
    [] op = "handleSpectrumInquiryResponse" -> SpectrumInquiryElems
    [] op = "handleGrantResponse" -> GrantElems
    [] op = "handleHeartbeatResponse" -> HeartbeatElems
    [] op = "handleRelinquishmentResponse" -> RelinquishmentElems
    [] op = "handleDeregistrationResponse" -> DeregistrationElems
    [] OTHER -> {}

HandleElement(op, e) ==
  CASE op = "handleRegistrationResponse" ->
         handleRegistrationResponse(created_nodes, tempNodeList, cur.iter, e)
    [] op = "handleSpectrumInquiryResponse" ->
         handleSpectrumInquiryResponse(created_nodes, e)
    [] op = "handleGrantResponse" ->
         handleGrantResponse(created_nodes, tempNodeList, cur.lh, e)
    [] op = "handleHeartbeatResponse" ->
         handleHeartbeatResponse(created_nodes, tempNodeList, cur.lh, e)
    [] op = "handleRelinquishmentResponse" ->
         handleRelinquishmentResponse(created_nodes, tempNodeList, e)
    [] OTHER -> handleDeregistrationResponse(created_nodes, e)

\* The running handler processes the next element of its batch.
ResponseElement(e) ==
  /\ cur.op \in Handlers
  /\ LET h == HandleElement(cur.op, e)
     IN /\ created_nodes' = h.nodes
        /\ IF h.arm > 0
           THEN /\ timerSeq < MaxTimers
                /\ timerSeq' = timerSeq + 1
                /\ timers' = Append(timers, [id |-> timerSeq + 1,
                                             fn |-> "heartbeatRequest",
                                             delay |-> h.arm])
           ELSE UNCHANGED <<timers, timerSeq>>
        /\ cur' = AfterStep(h.out, << >>, h.lh)
        /\ ev' = Event(cur.op, e, h.out, << >>)
  /\ UNCHANGED <<sim_mode, tempNodeList, placed, heartbeatTimer, stopCommanded>>

\* ------------------------------------------------------------ timers
\* An armed Timer fires in its own thread: the watchdog runs node_stop();
\* the renewal trigger calls heartbeatRequest() without its clientio
\* argument, which raises.
TimerFire(k) ==
  /\ k \in 1..Len(timers)
  /\ timers' = [j \in 1..(Len(timers) - 1) |->
                  IF j < k THEN timers[j] ELSE timers[j + 1]]
  /\ stopCommanded' = IF timers[k].fn = "node_stop" THEN TRUE ELSE stopCommanded
  /\ ev' = Event(timers[k].fn, NoElem,
                 IF timers[k].fn = "node_stop" THEN "stopped" ELSE "TypeError", << >>)
  /\ UNCHANGED <<sim_mode, created_nodes, tempNodeList, placed, heartbeatTimer,
                 timerSeq, cur>>

\* ------------------------------------------------------------ __blocked
\* A socket event of defineSocketEvents: `handle` is a step of the handler
\* the event calls; "__blocked = False" follows the handler's return and is
\* not reached when the handler raises.
Unblock ==
  blocked' = IF cur'.op = "idle" /\ ev'.out \notin Exceptions
             THEN FALSE ELSE blocked

SocketEvent(handle) == handle /\ Unblock /\ UNCHANGED regBatch

\* The functions that run a builder of the simulation input.
Builders ==
  {"registrationRequest", "spectrumInquiryRequest", "grantRequest",
   "simRelinquishmentReq", "deregistrationReqest", "simRegistrationReq"}

\* The step starts a function that begins with "tempNodeList = []": a
\* builder of the simulation input, or cmdRegistrationReq() at the command
\* line.
QueueReset ==
  /\ cur.op = "idle"
  /\ ev'.op \in Builders
  /\ \/ sim_mode
     \/ ev'.op = "simRegistrationReq"
     \/ ev'.op = "registrationRequest" /\ ev'.ds = "E"

\* The history of the Registration batch emitted last, over a step of a
\* request function: a builder that starts resets the queue, and
\* registrationRequest emits its batch, if not empty, when it ends.
Batches ==
  LET reset == IF QueueReset /\ regBatch.st = "awaiting"
               THEN [regBatch EXCEPT !.st = "superseded"] ELSE regBatch
  IN regBatch' = IF ev'.op = "registrationRequest" /\ reset.st /= "superseded"
                    /\ (ev'.out = "emitted" \/ ev'.fin = "emitted")
                    /\ ev'.ret /= << >>
                 THEN [st |-> "awaiting", q |-> tempNodeList'] ELSE reset

\* A step not taken from the menu of init (its simulation branch, a timer
\* thread, a caller of the module's functions): __blocked is not written.
Call(step) == step /\ UNCHANGED <<blocked, regBatch>>


Next ==
  \/ \E len \in 0..MaxBatch : Call(createNodeSim(len))
  \/ \E r \in CreateRequests, s \in {"", "S1"} : Call(createNodeStep(r, s))
  \/ \E a \in Addr : Call(createNodeCmd(a, "S1"))
  \/ \E len \in 0..MaxBatch : Call(registrationRequest(len))
  \/ \E r \in RegistrationParams : Call(registrationRequestStep(r))
  \/ \E ds \in DataSources, num \in 0..MaxBatch, g \in BOOLEAN :
        Call(registrationRequestCmd(ds, num, g))
  \/ \E len \in 0..MaxBatch, ds \in DataSources :
        Call(spectrumInquiryRequest(len, ds, "C1"))
  \/ \E r \in CbsdParams, ds \in DataSources :
        Call(spectrumInquiryRequestStep(r, ds, "C1"))
  \/ \E ds \in DataSources, c \in CbsdIds :
        Call(spectrumInquiryRequestCmd(ds, c))
  \/ \E len \in 0..MaxBatch, ds \in DataSources : Call(grantRequest(len, ds))
  \/ \E r \in GrantParams, ds \in DataSources : Call(grantRequestStep(r, ds))
  \/ \E ds \in DataSources : Call(grantRequestCmd(ds))
  \/ \E len \in 0..MaxBatch : Call(simRelinquishmentReqCall(len))
  \/ \E r \in CbsdParams : Call(simRelinquishmentReqStep(r))
  \/ \E len \in 0..MaxBatch : Call(deregistrationReqest(len))
  \/ \E r \in CbsdParams : Call(deregistrationReqestStep(r))
  \/ \E ds \in DataSources : Call(deregistrationReqestCmd(ds))
  \/ \E ds \in DataSources : Call(relinquishmentRequest(ds))
  \/ \E ds \in DataSources : Call(heartbeatRequest(ds))
  \/ \E len \in 0..MaxBatch : SocketEvent(registrationResponse(len))
  \/ \E len \in 0..MaxBatch, p \in BOOLEAN :
        SocketEvent(sprectumInquiryResponse(len, p))
  \/ \E len \in 0..MaxBatch : SocketEvent(grantResponse(len))
  \/ \E len \in 0..MaxBatch, e \in HeartbeatFirsts \cup {NoElem} :
        SocketEvent(heartbeatResponse(len, e))
  \/ \E len \in 0..MaxBatch : SocketEvent(relinquishmentResponse(len))
  \/ \E len \in 0..MaxBatch, p \in BOOLEAN :
        SocketEvent(deregistrationResponse(len, p))
  \/ \E e \in ElementsOf(cur.op) : SocketEvent(ResponseElement(e))
  \/ \E k \in 1..MaxTimers : Call(TimerFire(k))

Spec == Init /\ [][Next]_vars

\* ------------------------------------------------ the module as a library
\* The builders are module functions and do not read __sim_mode: a caller
\* may call simRegistrationReq(requests) directly while __sim_mode has the
\* value the module gives it when imported, False.  SpecDirect is that use
\* of the module, over one node address, one element per handler path
\* that changes a node and heartbeat batches that are unreadable, rejected,
\* incomplete or complete; its behaviours show what the code can do, and no
\* invariant is established from it.
simRegistrationReqCall(len) ==
  BuilderBegin("simRegistrationReq", len, Returned(<< >>))

simRegistrationReqStep(request) ==
  LET b == simRegistrationReq(created_nodes, tempNodeList, cur.arr, request)
  IN BuilderStep("simRegistrationReq", request, b, Returned(b.arr))

DirectElems ==
  {RegistrationElem(Success, "C1", ""), RegistrationElem(Rejection, "C1", ""),
   GrantElem(Success, "C1", "", "", ""),
   RelinquishmentElem(Success, "C1", "G1"),
   HeartbeatElem(Rejection, "C1", "", 10, "", ""),
   HeartbeatElem(Success, "C1", "grantId", 10, "", ""),
   HeartbeatElem(Success, "C1", "", 10, "", "")}

InitDirect == Init /\ ~sim_mode

NextDirect ==
  \/ Call(createNodeCmd("a1", "S1"))
  \/ \E len \in 1..MaxBatch : Call(simRegistrationReqCall(len))
  \/ Call(simRegistrationReqStep([nodeIp |-> "a1", userId |-> "U1",
                                  fccId |-> "F1"]))
  \/ Call(heartbeatRequest("L"))
  \/ \E len \in 1..MaxBatch : SocketEvent(registrationResponse(len))
  \/ \E len \in 1..MaxBatch : SocketEvent(grantResponse(len))
  \/ \E len \in 1..MaxBatch : SocketEvent(relinquishmentResponse(len))
  \/ \E len \in 0..1, e \in HeartbeatFirsts \cup {NoElem} :
        SocketEvent(heartbeatResponse(len, e))
  \/ \E e \in ElementsOf(cur.op) \cap DirectElems :
        SocketEvent(ResponseElement(e))
  \/ \E k \in 1..MaxTimers : Call(TimerFire(k))

SpecDirect == InitDirect /\ [][NextDirect]_vars

\* ---------------------------------------------------- the menu of init
\* init(args) without --sim: the menu reads a choice only while __blocked is
\* False.  Choices 3 to 7 set __blocked = True and call the request entry
\* point; choice 1 calls cmdCreateNode(), and the nodes of the registry are
\* those of createNode().  SpecMenu is the menu over the answers
\* with which the entry point called returns (a raise ends the menu's
\* thread), one node address and one element per handler; the socket events
\* and the timers run as they do under Spec.
MenuRequest(request) ==
  /\ ~blocked
  /\ request
  /\ blocked' = TRUE
  /\ UNCHANGED regBatch

MenuElems ==
  {RegistrationElem(Success, "C1", ""), GrantElem(Success, "C1", "", "", ""),
   RelinquishmentElem(Success, "C1", "G1"),
   SpectrumInquiryElem("", Success)}

InitMenu == Init /\ ~sim_mode

\* init calls cmdCreateNode() itself, before the menu and at choice 1, and
\* drops the list it returns: created_nodes is left as it was.
initCmdCreateNode(address, hwSerial) ==
  /\ ~sim_mode /\ cur.op = "idle"
  /\ ev' = Event("init", [t |-> "choice", func |-> "cmdCreateNode"],
                 "dropped", <<NewNode(address, hwSerial)>>)
  /\ UNCHANGED <<sim_mode, created_nodes, tempNodeList, placed, heartbeatTimer,
                 timers, timerSeq, stopCommanded, cur>>

NextMenu ==
  \/ Call(createNodeCmd("a1", "S1"))
  \/ ~blocked /\ Call(initCmdCreateNode("a1", "S1"))
  \/ \E ds \in DataSources, num \in 1..MaxBatch :
        MenuRequest(registrationRequestCmd(ds, num, FALSE))
  \/ \E ds \in DataSources : MenuRequest(spectrumInquiryRequestCmd(ds, "C1"))
  \/ \E ds \in DataSources : MenuRequest(grantRequestCmd(ds))
  \/ \E ds \in {"L", "exit"} : MenuRequest(heartbeatRequest(ds))
  \/ MenuRequest(relinquishmentRequest("exit"))
  \/ \E len \in 0..1 : SocketEvent(registrationResponse(len))
  \/ \E len \in 0..1 : SocketEvent(sprectumInquiryResponse(len, TRUE))
  \/ \E len \in 0..1 : SocketEvent(grantResponse(len))
  \/ \E e \in HeartbeatFirsts : SocketEvent(heartbeatResponse(1, e))
  \/ \E len \in 0..1 : SocketEvent(relinquishmentResponse(len))
  \/ \E e \in ElementsOf(cur.op) \cap MenuElems :
        SocketEvent(ResponseElement(e))
  \/ \E k \in 1..MaxTimers : Call(TimerFire(k))

SpecMenu == InitMenu /\ [][NextMenu]_vars

\* The request entry points, and the handler of the response to each.
ResponseHandlerOf(op) ==
  CASE op = "registrationRequest" -> "handleRegistrationResponse"
    [] op = "spectrumInquiryRequest" -> "handleSpectrumInquiryResponse"
    [] op = "grantRequest" -> "handleGrantResponse"
    [] op = "heartbeatRequest" -> "handleHeartbeatResponse"
    [] op = "relinquishmentRequest" -> "handleRelinquishmentResponse"
    [] op = "deregistrationReqest" -> "handleDeregistrationResponse"
    [] OTHER -> ""

\* The last step was a request entry point that emitted its batch.
RequestEmitted ==
  /\ ResponseHandlerOf(ev.op) /= ""
  /\ ev.out = "emitted" \/ ev.fin = "emitted"

\* ------------------------------------------------- the menu, answered
\* The menu of init with a server that answers every request batch emitted,
\* with the response event of its kind, and sends nothing else: a response
\* event arrives only while the request emitted last is unanswered.  The
\* socket thread runs the event and the handler's loop to their end
\* (fairness); nothing obliges the user to enter a choice.  createNode() is
\* called only between two commands of the menu, and the watchdogs stay
\* pending.
Answer(handle) ==
  /\ blocked /\ RequestEmitted
  /\ SocketEvent(handle)
  /\ ev'.op = ResponseHandlerOf(ev.op)

MenuChoice ==
  \/ \E a \in Addr : ~blocked /\ Call(createNodeCmd(a, "S1"))
  \/ ~blocked /\ Call(initCmdCreateNode("a1", "S1"))
  \/ \E ds \in DataSources, num \in 1..MaxBatch :
        MenuRequest(registrationRequestCmd(ds, num, FALSE))
  \/ \E ds \in DataSources : MenuRequest(spectrumInquiryRequestCmd(ds, "C1"))
  \/ \E ds \in DataSources : MenuRequest(grantRequestCmd(ds))
  \/ \E ds \in {"L", "exit"} : MenuRequest(heartbeatRequest(ds))
  \/ MenuRequest(relinquishmentRequest("exit"))

ServerAnswer ==
  \/ \E len \in 0..MaxBatch : Answer(registrationResponse(len))
  \/ \E len \in 0..MaxBatch : Answer(sprectumInquiryResponse(len, TRUE))
  \/ \E len \in 0..MaxBatch : Answer(grantResponse(len))
  \/ \E e \in HeartbeatFirsts : Answer(heartbeatResponse(1, e))

HandlerLoop ==
  \E e \in ElementsOf(cur.op) \cap (MenuElems \cup DirectElems) :
     SocketEvent(ResponseElement(e))

NextAnswered == MenuChoice \/ ServerAnswer \/ HandlerLoop

SpecAnswered ==
  /\ InitMenu /\ [][NextAnswered]_vars
  /\ WF_vars(ServerAnswer) /\ WF_vars(HandlerLoop)

\* ------------------------------------------- batches and their responses
\* The simulation branch of init with the history of the Registration batch
\* emitted last, over a registry filled by createNode(requests): Registration and Deregistration actions over nodes that
\* report a serial number, and Registration responses of one element or
\* none.  The history of a Registration response that starts: the
\* response is that of the batch emitted last unless a later batch has
\* been built since.
Answered ==
  regBatch' = IF cur.op = "idle" /\ ev'.op = "handleRegistrationResponse"
              THEN IF regBatch.st = "superseded"
                   THEN [regBatch EXCEPT !.st = "stale"]
                   ELSE [st |-> "none", q |-> << >>]
              ELSE regBatch

BatchCall(step) == step /\ UNCHANGED blocked /\ Batches

\* The actions of the simulation file that init's dispatch answers with
\* "pass": no function is called for them.
Passed == {"heartbeatRequest", "relinquishmentRequest", "deregistrationRequest"}

initPass(func) ==
  /\ sim_mode /\ cur.op = "idle"
  /\ ev' = Event("init", [t |-> "action", func |-> func], "pass", << >>)
  /\ UNCHANGED <<sim_mode, created_nodes, tempNodeList, placed, heartbeatTimer,
                 timers, timerSeq, stopCommanded, cur>>

\* A "createNode" action of the simulation file: init calls
\* simCreateNode(payload) itself and drops the array it returns.
CreatePayloads ==
  UNION {[1..len -> [mode : {"TX"}, address : Addr, centerFreq : {"f1"}]] :
         len \in 1..MaxBatch}

initSimCreateNode(payload, hwSerial) ==
  /\ sim_mode /\ cur.op = "idle"
  /\ ev' = Event("init", [t |-> "action", func |-> "createNode"], "dropped",
                 simCreateNodeAll(created_nodes, payload, << >>, hwSerial))
  /\ UNCHANGED <<sim_mode, created_nodes, tempNodeList, placed, heartbeatTimer,
                 timers, timerSeq, stopCommanded, cur>>

BatchEvent(handle) == handle /\ Unblock /\ Answered

BatchElems ==
  {RegistrationElem(Success, c, "") : c \in CbsdIds}
  \cup {RegistrationElem(Rejection, "C1", "")}

InitBatches == Init /\ sim_mode

NextBatches ==
  \/ \E len \in 1..MaxBatch : BatchCall(createNodeSim(len))
  \/ \E a \in Addr :
        BatchCall(createNodeStep([mode |-> "TX", address |-> a,
                                  centerFreq |-> "f1"], "S1"))
  \/ \E len \in 0..MaxBatch : BatchCall(registrationRequest(len))
  \/ \E a \in Addr :
        BatchCall(registrationRequestStep([nodeIp |-> a, userId |-> "U1",
                                           fccId |-> "F1"]))
  \/ \E len \in 0..MaxBatch : BatchCall(deregistrationReqest(len))
  \/ \E a \in Addr : BatchCall(deregistrationReqestStep([nodeIp |-> a]))
  \/ \E func \in Passed : BatchCall(initPass(func))
  \/ \E payload \in CreatePayloads :
        BatchCall(initSimCreateNode(payload, "S1"))
  \/ \E len \in 0..1 : BatchEvent(registrationResponse(len))
  \/ \E e \in ElementsOf(cur.op) \cap BatchElems :
        BatchEvent(ResponseElement(e))

SpecBatches == InitBatches /\ [][NextBatches]_vars

\* ------------------------------------------------------------- properties
\* The last step met an element of a response batch.
ElementHandled == ev.op \in Handlers /\ ev.elem.t /= "none"

\* An envelope that is missing, has no responseCode, or has a responseCode
\* other than zero.
EnvelopeFails(env) ==
  ~env.present \/ env.code.ty = "none" \/ env.code.v /= "0"

\* The node a response element with that cbsdId refers to: a node of the
\* queue that had the cbsdId when the element arrived.
Awaiting(n, cbsdId) ==
  /\ n \in 1..Len(ev.nodes)
  /\ ev.nodes[n].cbsdId = cbsdId
  /\ \E k \in 1..Len(tempNodeList) : tempNodeList[k] = n

\* C1: an element whose response envelope is missing, has no responseCode or
\* has a non-zero responseCode leaves the Grant status of every node, the
\* node it refers to among them, as it was before the element was processed.
C1_FailedEnvelopeKeepsStatus ==
  (ElementHandled /\ "response" \in DOMAIN ev.elem
     /\ EnvelopeFails(ev.elem.response))
  => \A n \in 1..Len(ev.nodes) :
        created_nodes[n].grant.status = ev.nodes[n].grant.status

\* A rejected relinquishment element was processed for a node that holds a
\* grant.
C1_RejectedForGrantedNode ==
  /\ ev.op = "handleRelinquishmentResponse" /\ ev.elem.t /= "none"
  /\ ev.elem.response = Rejection
  /\ \E n \in 1..Len(ev.nodes) :
        Awaiting(n, ev.elem.cbsdId) /\ ev.nodes[n].grant.status = "GRANTED"

\* C2: the element at index i of a registration response batch changes no
\* node but the one the most recent request batch placed at index i of the
\* queue, and when it is applied that node has the element's cbsdId.
C2_RegistrationResolvesByIndex ==
  (ev.op = "handleRegistrationResponse" /\ ev.elem.t /= "none")
  => /\ \A n \in 1..Len(ev.nodes) :
          created_nodes[n] /= ev.nodes[n]
          => (ev.idx + 1 <= Len(placed) /\ placed[ev.idx + 1] = n)
     /\ ev.out = "applied"
          => /\ ev.idx + 1 <= Len(placed)
             /\ placed[ev.idx + 1] > 0
             /\ created_nodes[placed[ev.idx + 1]].cbsdId = ev.elem.cbsdId

\* The second element of a registration response batch registered the node
\* queued second, another node than the one queued first.
C2_SecondElementRegisters ==
  /\ ev.op = "handleRegistrationResponse" /\ ev.elem.t /= "none"
  /\ ev.idx = 1 /\ Len(placed) = 2 /\ placed[1] /= placed[2]
  /\ created_nodes[placed[2]] /= ev.nodes[placed[2]]

\* C3: every change of a node's Grant status is NONE -> REQUESTED,
\* REQUESTED -> GRANTED, GRANTED -> AUTHORIZED, GRANTED or AUTHORIZED ->
\* RELINQUISHED, or a reset to NONE by a successful relinquishment or
\* deregistration; a step that would make another change leaves the status.
C3_GrantStatusTransitions ==
  \A n \in 1..Len(ev.nodes) :
    LET before == ev.nodes[n].grant.status
        after == created_nodes[n].grant.status
    IN \/ after = before
       \/ <<before, after>> \in
            {<<"NONE", "REQUESTED">>, <<"REQUESTED", "GRANTED">>,
             <<"GRANTED", "AUTHORIZED">>, <<"GRANTED", "RELINQUISHED">>,
             <<"AUTHORIZED", "RELINQUISHED">>}
       \/ /\ after = "NONE"
          /\ ev.op \in {"handleRelinquishmentResponse",
                        "handleDeregistrationResponse"}
          /\ ev.out = "applied"

\* A heartbeat response arrived whose first element is successful and
\* complete, for a node of the queue.
HeartbeatSucceeded ==
  /\ ev.op = "handleHeartbeatResponse" /\ ev.elem.t /= "none"
  /\ ev.elem.response = Success
  /\ ev.elem.grantId /= "" /\ ev.elem.transmitExpireTime /= ""
  /\ ev.elem.grantExpireTime /= "" /\ ev.elem.heartbeatInterval > 0
  /\ \E n \in 1..Len(ev.nodes) : Awaiting(n, ev.elem.cbsdId)

\* C4: once one heartbeat request has been sent and a successful heartbeat
\* response for the node has been handled, the expiry watchdog does not stop
\* the radio.
C4_WatchdogCancelled ==
  [][(HeartbeatSucceeded /\ timerSeq = 1)
       => ~(ev'.op = "node_stop" /\ stopCommanded')]_vars

\* C5: a successful heartbeat response element with heartbeatInterval h arms
\* the renewal timer with delay max(10, 9 * h) tenths of a second.
C5_RenewalDelay ==
  HeartbeatSucceeded
  => \E k \in 1..Len(timers) :
        /\ timers[k].fn = "heartbeatRequest"
        /\ \A j \in 1..Len(ev.timers) : ev.timers[j].id /= timers[k].id
        /\ timers[k].delay = IF 9 * ev.elem.heartbeatInterval > 10
                             THEN 9 * ev.elem.heartbeatInterval ELSE 10

\* C6: when a registration response element is processed whose index has a
\* node in the queue, that node's cbsdId is set, to the element's cbsdId, if
\* the envelope's responseCode is "0" and the element has a non-empty cbsdId;
\* otherwise no node is changed.
C6_CbsdIdSetIffSuccess ==
  (ev.op = "handleRegistrationResponse" /\ ev.elem.t /= "none"
     /\ ev.idx + 1 <= Len(tempNodeList) /\ tempNodeList[ev.idx + 1] > 0)
  => IF ev.elem.response = Success /\ ev.elem.cbsdId /= ""
     THEN created_nodes[tempNodeList[ev.idx + 1]].cbsdId = ev.elem.cbsdId
     ELSE created_nodes = ev.nodes

\* One registration request was built for a node without cbsdId; both a
\* successful element and a successful element without cbsdId are processed
\* for it.
C6_FreshNodeRegistered ==
  /\ ev.op = "handleRegistrationResponse" /\ ev.elem.t /= "none"
  /\ ev.idx = 0 /\ Len(tempNodeList) = 1 /\ tempNodeList[1] > 0
  /\ ev.nodes[tempNodeList[1]].cbsdId = ""
  /\ ev.elem.response = Success /\ ev.elem.cbsdId = "C1"
  /\ created_nodes[tempNodeList[1]].cbsdId = "C1"

\* C7: a grant response element with a success envelope, grantId,
\* channelType, grantExpireTime and heartbeatInterval, for a node of the
\* queue, leaves the node's Grant GRANTED with those fields, and the armed
\* timers as they were.
C7_GrantStoredNoTimer ==
  (ev.op = "handleGrantResponse" /\ ev.elem.t /= "none"
     /\ ev.elem.response = Success
     /\ ev.elem.grantId /= "" /\ ev.elem.channelType /= ""
     /\ ev.elem.grantExpireTime /= "" /\ ev.elem.heartbeatInterval > 0)
  => LET n == findTempNodeByCbsdId(ev.nodes, tempNodeList, ev.elem.cbsdId)
     IN (ev.elem.cbsdId /= "" /\ n > 0)
        => /\ created_nodes[n].grant =
                [grantId |-> ev.elem.grantId, status |-> "GRANTED",
                 grantExpireTime |-> ev.elem.grantExpireTime,
                 heartbeatInterval |-> ev.elem.heartbeatInterval,
                 channelType |-> ev.elem.channelType]
           /\ timers = ev.timers

\* A complete successful grant element was processed for a registered node
\* that a grant request was built for, and that held no grant.
C7_GrantedFromNone ==
  /\ ev.op = "handleGrantResponse" /\ ev.elem.t /= "none"
  /\ ev.elem.response = Success /\ ev.out = "applied"
  /\ \E n \in 1..Len(ev.nodes) :
        /\ Awaiting(n, ev.elem.cbsdId)
        /\ ev.nodes[n].grant.status = "NONE"
        /\ created_nodes[n].grant.status = "GRANTED"

\* C8: after a relinquishment response element with responseCode "0" is
\* processed for a node, the node's Grant is as constructed (status NONE, no
\* grantId) and no expiry watchdog or renewal timer remains armed.
C8_RelinquishedNoTimers ==
  (ev.op = "handleRelinquishmentResponse" /\ ev.elem.t /= "none"
     /\ ev.out = "applied")
  => LET n == findTempNodeByCbsdId(ev.nodes, tempNodeList, ev.elem.cbsdId)
     IN /\ n > 0
        /\ created_nodes[n].grant = NewGrant
        /\ timers = << >>

\* C9: an element of a response batch never keeps the elements after it
\* from being processed: while elements are left, the handler goes on.
C9_ElementsIndependent ==
  (ElementHandled /\ ev.rest > 0) => cur.op = ev.op

\* C10: a builder's iteration over a parameter set either builds a request
\* or drops the set; it does not raise, and the builder goes on to the
\* parameter sets that follow.
C10_InvalidParamsDropped ==
  (ev.op \in Builders /\ "nodeIp" \in DOMAIN ev.elem)
  => /\ ev.out \in {"built", "dropped"}
     /\ ev.rest > 0 => cur.op = ev.op
\* A request builder returned a non-empty array of requests it built
\* (config loaders return [None], which is no request).
BuilderReturned ==
  /\ ev.op \in Builders
  /\ ev.ret /= << >>
  /\ \A k \in 1..Len(ev.ret) : ev.ret[k].kind /= "None"

\* C11: when a request builder has returned, the queue has one entry per
\* returned request, entry k being the Node that request k was built for,
\* and no other entry.
C11_QueueMatchesBuiltRequests ==
  BuilderReturned
  => /\ Len(tempNodeList) = Len(ev.ret)
     /\ \A k \in 1..Len(ev.ret) :
          /\ tempNodeList[k] > 0
          /\ "cbsdSerialNumber" \in DOMAIN ev.ret[k]
               => created_nodes[tempNodeList[k]].serial
                    = ev.ret[k].cbsdSerialNumber
          /\ "cbsdId" \in DOMAIN ev.ret[k]
               => created_nodes[tempNodeList[k]].cbsdId = ev.ret[k].cbsdId
\* C12: a node's cbsdId, once set to a non-empty value, is not changed by
\* any later step.
C12_CbsdIdImmutable ==
  \A n \in 1..Len(ev.nodes) :
    ev.nodes[n].cbsdId /= "" => created_nodes[n].cbsdId = ev.nodes[n].cbsdId
\* C13: every request other than a registration request that is built or
\* emitted is for a registered node: it carries a non-empty cbsdId, which
\* is the cbsdId of a created node.
C13_RequestsOnlyForRegisteredNodes ==
  \A k \in 1..Len(ev.ret) :
    ev.ret[k].kind \notin {"registrationRequest", "None"}
    => /\ "cbsdId" \in DOMAIN ev.ret[k]
       /\ ev.ret[k].cbsdId /= ""
       /\ \E n \in 1..Len(created_nodes) :
             created_nodes[n].cbsdId = ev.ret[k].cbsdId
\* The last step met a successful response element for which no Node can
\* be resolved: it has no cbsdId, or (registration) its index has no queue
\* entry, or (the other kinds) no Node of the queue has its cbsdId.
Unresolvable ==
  /\ ElementHandled
  /\ "cbsdId" \in DOMAIN ev.elem
  /\ ev.elem.response = Success
  /\ IF ev.op = "handleRegistrationResponse"
     THEN ev.elem.cbsdId = "" \/ ev.idx + 1 > Len(tempNodeList)
     ELSE \/ ev.elem.cbsdId = ""
          \/ ~\E n \in 1..Len(ev.nodes) : Awaiting(n, ev.elem.cbsdId)

\* C14: a response element for which no Node can be resolved is skipped, and
\* the nodes, their grants and the timers are as they were before it (no
\* handler writes the queue).
C14_UnresolvableSkipped ==
  Unresolvable
  => /\ ev.out = "skipped"
     /\ created_nodes = ev.nodes
     /\ timers = ev.timers
\* C15: after a heartbeat request is emitted an expiry watchdog is armed and
\* the handle kept for it (__heartbeatTimer) refers to it, so that it can be
\* cancelled; when a watchdog fires, the radio is commanded to stop.
C15_WatchdogArmedAndCancellable ==
  /\ (ev.op = "heartbeatRequest" /\ ev.out = "emitted")
     => \E k \in 1..Len(timers) :
           /\ timers[k].fn = "node_stop"
           /\ timers[k].delay = timeTilHearbeatExpires
           /\ heartbeatTimer /= None
           /\ heartbeatTimer = timers[k].id
  /\ ev.op = "node_stop" => (ev.out = "stopped" /\ stopCommanded)
\* C17: a heartbeat response handled after the expiry watchdog has stopped
\* the radio leaves the radio stopped and arms no renewal timer; and a
\* successful heartbeat response handled while the watchdog is pending
\* cancels it, so that no watchdog is left when the handling is over.
C17_LateResponseKeepsStop ==
  [][ev'.op = "handleHeartbeatResponse"
       => /\ stopCommanded
             => /\ stopCommanded'
                /\ \A k \in 1..Len(timers') :
                     timers'[k].fn = "heartbeatRequest"
                     => \E j \in 1..Len(timers) : timers[j].id = timers'[k].id
          /\ (HeartbeatSucceeded'
                /\ \E k \in 1..Len(timers) : timers[k].fn = "node_stop")
             => \A k \in 1..Len(timers') : timers'[k].fn /= "node_stop"]_vars
\* C19: at the command line, once a request batch has been emitted from the
\* menu, a socket event other than the response to that request leaves the
\* menu blocked, so that no further batch is built while the response is
\* outstanding.
C19_BlockedUntilMatchingResponse ==
  [][(~sim_mode /\ RequestEmitted /\ blocked
        /\ ev'.op \in Handlers /\ ev'.op /= ResponseHandlerOf(ev.op))
       => blocked']_vars
\* C20: in simulation mode no request entry point reads an answer at the
\* data-source prompt.
C20_SimulationNeverPrompts ==
  (sim_mode /\ ResponseHandlerOf(ev.op) /= "") => ev.ds = ""
\* C21: for the envelope of every response element a handler passes to
\* _isValidResponse, the function returns True when the envelope is present
\* and carries a responseCode that denotes zero (the string "0" or the
\* integer 0), and False otherwise.
C21_ValidIffZeroCode ==
  (ElementHandled
     /\ ev.op \in {"handleRegistrationResponse", "handleGrantResponse",
                   "handleRelinquishmentResponse"})
  => isValidResponse(ev.elem.response)
       = IF EnvelopeFails(ev.elem.response) THEN "False" ELSE "True"
\* A grant, heartbeat or relinquishment element that reports success and
\* carries every field its handler requires.
Complete(e) ==
  /\ e.response = Success
  /\ e.cbsdId /= "" /\ e.grantId /= ""
  /\ e.t = "grant" => /\ e.channelType /= "" /\ e.grantExpireTime /= ""
                      /\ e.heartbeatInterval > 0
  /\ e.t = "heartbeat" => /\ e.transmitExpireTime /= ""
                          /\ e.grantExpireTime /= ""
                          /\ e.heartbeatInterval > 0

\* C22: a complete grant, heartbeat or relinquishment element whose cbsdId
\* is that of a node of created_nodes is applied to a node, whether or not
\* the node is in the queue of the batch built last.
C22_ResolvedInRegistry ==
  (ElementHandled
     /\ ev.op \in {"handleGrantResponse", "handleHeartbeatResponse",
                   "handleRelinquishmentResponse"}
     /\ Complete(ev.elem)
     /\ \E n \in 1..Len(ev.nodes) : ev.nodes[n].cbsdId = ev.elem.cbsdId)
  => /\ ev.out = "applied"
     /\ \A n \in 1..Len(ev.nodes) :
          created_nodes[n] /= ev.nodes[n] => ev.nodes[n].cbsdId = ev.elem.cbsdId
\* C23: when a Registration batch has been emitted and a later batch has
\* reset the queue before its response arrives, processing an element of
\* that Registration response changes no node but the one the Registration
\* batch queued at the element's index: no cbsdId is assigned to a node
\* that only the later batch queued.
C23_StaleResponseAssignsNothing ==
  (ev.op = "handleRegistrationResponse" /\ ev.elem.t /= "none"
     /\ regBatch.st = "stale")
  => \A n \in 1..Len(ev.nodes) :
        created_nodes[n] /= ev.nodes[n]
        => /\ ev.idx + 1 <= Len(regBatch.q)
           /\ regBatch.q[ev.idx + 1] = n
\* A grant element that reports success and lacks one of grantId,
\* channelType, grantExpireTime and heartbeatInterval.
IncompleteGrant ==
  /\ ev.op = "handleGrantResponse" /\ ev.elem.t /= "none"
  /\ ev.elem.response = Success
  /\ \/ ev.elem.grantId = "" \/ ev.elem.channelType = ""
     \/ ev.elem.grantExpireTime = "" \/ ev.elem.heartbeatInterval = 0

\* C24: a grant element that reports success and lacks one of the four
\* required fields is skipped: the Grant, the measReportConfig and every
\* other field of every node are as they were before it.
C24_IncompleteGrantChangesNothing ==
  IncompleteGrant => (ev.out = "skipped" /\ created_nodes = ev.nodes)

\* Such an element, carrying a measReportConfig, was processed for a node of
\* the queue.
C24_IncompleteForQueuedNode ==
  /\ IncompleteGrant
  /\ ev.elem.measReportConfig /= ""
  /\ \E n \in 1..Len(ev.nodes) : Awaiting(n, ev.elem.cbsdId)
\* C25: after a successful and complete heartbeat response element for a
\* node of the queue, the node's Grant holds the element's grantExpireTime
\* and heartbeatInterval; a successful element that lacks a required field
\* changes no node and arms no timer.
C25_HeartbeatUpdatesGrant ==
  /\ HeartbeatSucceeded
     => \E n \in 1..Len(ev.nodes) :
           /\ Awaiting(n, ev.elem.cbsdId)
           /\ created_nodes[n].grant.grantExpireTime = ev.elem.grantExpireTime
           /\ created_nodes[n].grant.heartbeatInterval
                = ev.elem.heartbeatInterval
  /\ (ev.op = "handleHeartbeatResponse" /\ ev.elem.t /= "none"
        /\ ev.elem.response = Success /\ ~Complete(ev.elem))
     => (created_nodes = ev.nodes /\ timers = ev.timers)
\* C26: a heartbeat response that arrives while no expiry watchdog is armed
\* (none was armed, or it has fired or been cancelled) is handled without
\* the error of cancelling it, and the timers that were armed stay armed.
C26_CancelIsIdempotent ==
  (ev.op = "handleHeartbeatResponse"
     /\ \A k \in 1..Len(ev.timers) : ev.timers[k].fn /= "node_stop")
  => /\ ev.out /= "AttributeError"
     /\ \A k \in 1..Len(ev.timers) :
          \E j \in 1..Len(timers) : timers[j] = ev.timers[k]
\* C27: in simulation mode no named operation of the simulation list is
\* passed over: each is dispatched to its request entry point, which emits
\* the batch.
C27_EveryActionDispatched ==
  (sim_mode /\ ev.op = "init" /\ ev.elem.t = "action") => ev.out /= "pass"
\* The last step returned newly created Nodes: a createNode or cmdCreateNode
\* call of init, with the Nodes returned to it, or createNode() itself.
NodesCreated ==
  \/ ev.op = "init" /\ ev.elem.t \in {"action", "choice"}
     /\ ev.elem.func \in {"createNode", "cmdCreateNode"} /\ ev.ret /= << >>
  \/ ev.op = "createNode" /\ ev.out = "returned"
     /\ Len(created_nodes) > Len(ev.nodes)

\* C28: every Node that is created, by a simulation createNode action or by
\* the interactive create-node command, is in created_nodes afterwards and
\* findCreatedNodeByIp resolves its address to it.
C28_CreatedNodeResolvable ==
  NodesCreated =>
    /\ \A i \in 1..Len(ev.ret) :
          LET n == findCreatedNodeByIp(created_nodes, ev.ret[i].ip)
          IN n /= 0 /\ created_nodes[n] = ev.ret[i]
    /\ \A n \in (Len(ev.nodes) + 1)..Len(created_nodes) :
          findCreatedNodeByIp(created_nodes, created_nodes[n].ip) = n

\* A heartbeat request has been emitted (its watchdog was created), a node
\* of the registry holds a Grant and no watchdog has stopped the radio.
HeartbeatSentForGrant ==
  /\ timerSeq > 0
  /\ ~stopCommanded
  /\ \E n \in 1..Len(created_nodes) : created_nodes[n].grant.grantId /= ""

C30_WatchdogReachableByHandle ==
  \A k \in 1..Len(timers) :
     timers[k].fn = "node_stop" => heartbeatTimer = timers[k].id

\* C32: at the command line, with every emitted request answered, a menu
\* that a request command has blocked accepts input again: whenever
\* __blocked is True it is eventually False, also when the command emitted
\* nothing because the data-source prompt was left with 'exit'.
C32_BlockedEventuallyCleared == blocked ~> ~blocked

\* C33: created_nodes never holds two Nodes with the same network address,
\* whatever node-creation calls were made.
C33_AddressesUnique ==
  \A i, j \in 1..Len(created_nodes) :
     created_nodes[i].ip = created_nodes[j].ip => i = j

\* C34: every entry of tempNodeList is a Node of created_nodes, never a
\* serial-number string, whichever builder filled the queue.
C34_QueueHoldsRegistryNodes ==
  \A k \in 1..Len(tempNodeList) : tempNodeList[k] \in 1..Len(created_nodes)

\* C35: once a successful Registration response element has given a queued
\* Node its cbsdId, that Node is a member of registered_nodes, where the
\* command-line builders of the later requests look for it.
C35_RegisteredNodesHoldsRegistered ==
  (ev.op = "handleRegistrationResponse" /\ ev.out = "applied")
  => \E k \in 1..Len(registered_nodes) :
        registered_nodes[k] = tempNodeList[ev.idx + 1]

====
